---- MODULE Spec2Model ----
(***************************************************************************)
(* Model of the Ventura County Sheriff scraper                             *)
(* (clean/ca/ventura_county_sheriff.py): Site.scrape_meta and the methods  *)
(* it calls, run against a page cache that persists between invocations.   *)
(*                                                                         *)
(* Strings.  A Python str is a sequence of tokens.  "/" and "\n" and " "   *)
(* are tokens of their own, and so is every substring the code searches    *)
(* for ("https:", ".pdf", ".mp3", "youtu.be", "youtube.com", "..", ".");   *)
(* no other token contains one of them.  With that convention startswith,  *)
(* endswith, `in`, split("/"), rstrip("/"), strip() and replace("\n", "")  *)
(* are computed on the tokens exactly as Python computes them on the       *)
(* characters.                                                             *)
(***************************************************************************)
EXTENDS Integers, Sequences, FiniteSets, TLC

\* ------------------------------------------------------------------ bounds

\* Largest number of anchors inside the selected container of an index page.
MaxLinks == 2
\* Number of invocations of scrape_meta against the same cache directory.
MaxRuns == 2

\* ------------------------------------------------------------ Python values

Last(s) == s[Len(s)]
Front(s) == SubSeq(s, 1, Len(s) - 1)

\* str.startswith(prefix)
StartsWith(s, prefix) ==
    /\ Len(s) >= Len(prefix)
    /\ SubSeq(s, 1, Len(prefix)) = prefix

\* str.endswith(suffix), suffix a single token
EndsWith(s, suffix) == Len(s) > 0 /\ Last(s) = suffix

\* `needle in s` for two strings, needle a single token
Contains(s, needle) == \E k \in 1..Len(s) : s[k] = needle

\* str.replace("\n", "")
RemoveNewlines(s) == SelectSeq(s, LAMBDA t : t # "\n")

IsSpace(t) == t \in {" ", "\n"}

RECURSIVE LStrip(_)
LStrip(s) == IF Len(s) > 0 /\ IsSpace(s[1]) THEN LStrip(Tail(s)) ELSE s

RECURSIVE RStrip(_)
RStrip(s) == IF Len(s) > 0 /\ IsSpace(Last(s)) THEN RStrip(Front(s)) ELSE s

\* str.strip()
Strip(s) == LStrip(RStrip(s))

\* str.rstrip("/")
RECURSIVE RStripSlash(_)
RStripSlash(s) == IF Len(s) > 0 /\ Last(s) = "/" THEN RStripSlash(Front(s)) ELSE s

FirstSlash(s) == CHOOSE k \in 1..Len(s) : s[k] = "/" /\ \A j \in 1..(k - 1) : s[j] # "/"

\* str.split("/"): the list of segments, each a string; "" splits to [""]
RECURSIVE Split(_)
Split(s) ==
    IF ~Contains(s, "/") THEN <<s>>
    ELSE <<SubSeq(s, 1, FirstSlash(s) - 1)>>
             \o Split(SubSeq(s, FirstSlash(s) + 1, Len(s)))

\* "/".join(segments)
RECURSIVE Join(_)
Join(segs) ==
    IF Len(segs) = 0 THEN <<>>
    ELSE IF Len(segs) = 1 THEN segs[1]
    ELSE segs[1] \o <<"/">> \o Join(Tail(segs))

\* ------------------------------------------------------------ urllib.parse

Schemes == {"https:", "http:"}

\* The first "/"-free piece of s, and what follows it.
UpToSlash(s) == IF Contains(s, "/") THEN SubSeq(s, 1, FirstSlash(s) - 1) ELSE s
FromSlash(s) == IF Contains(s, "/") THEN SubSeq(s, FirstSlash(s), Len(s)) ELSE <<>>

\* urlparse: the scheme (it keeps its colon here), or the default
SchemeOf(url, default) ==
    IF Len(url) > 0 /\ url[1] \in Schemes THEN url[1] ELSE default

\* urlparse: what follows the scheme
AfterScheme(url) ==
    IF Len(url) > 0 /\ url[1] \in Schemes THEN Tail(url) ELSE url

\* urlparse: the netloc, present when what follows the scheme starts "//"
NetlocOf(rest) ==
    IF StartsWith(rest, <<"/", "/">>) THEN UpToSlash(SubSeq(rest, 3, Len(rest)))
    ELSE <<>>

\* urlparse: the path
PathOf(rest) ==
    IF StartsWith(rest, <<"/", "/">>) THEN FromSlash(SubSeq(rest, 3, Len(rest)))
    ELSE rest

\* urlparse(url, default) of a URL without query or fragment
UrlParse(url, default) ==
    [scheme |-> SchemeOf(url, default),
     netloc |-> NetlocOf(AfterScheme(url)),
     path |-> PathOf(AfterScheme(url))]

\* urlunparse((scheme, netloc, path, "", "", "")) with a non-empty netloc
UrlUnparse(scheme, netloc, path) ==
    <<scheme, "/", "/">> \o netloc
        \o (IF Len(path) > 0 /\ path[1] # "/" THEN <<"/">> ELSE <<>>) \o path

\* urljoin: the loop that resolves "." and ".." segments
RECURSIVE ResolveDots(_, _)
ResolveDots(segments, resolved) ==
    IF Len(segments) = 0 THEN resolved
    ELSE IF segments[1] = <<"..">>
    THEN ResolveDots(Tail(segments),
                     IF Len(resolved) > 0 THEN Front(resolved) ELSE resolved)
    ELSE IF segments[1] = <<".">>
    THEN ResolveDots(Tail(segments), resolved)
    ELSE ResolveDots(Tail(segments), Append(resolved, segments[1]))

\* urljoin: segments[1:-1] = filter(None, segments[1:-1])
DropEmptyMiddle(segments) ==
    IF Len(segments) < 3 THEN segments
    ELSE <<segments[1]>>
           \o SelectSeq(SubSeq(segments, 2, Len(segments) - 1), LAMBDA g : g # <<>>)
           \o <<Last(segments)>>

\* urljoin: bpath.split("/") without its last part unless that is empty
BaseParts(bp) == IF Last(bp) # <<>> THEN Front(bp) ELSE bp

\* urljoin: the segments to resolve
Segments(base_parts, path) ==
    IF path[1] = "/" THEN Split(path)
    ELSE DropEmptyMiddle(base_parts \o Split(path))

\* urljoin: "/".join(resolved_path) or "/"
JoinedPath(segments, resolved) ==
    IF Len(Join(resolved)) = 0 /\ Last(segments) \notin {<<".">>, <<"..">>}
    THEN <<"/">>
    ELSE IF Last(segments) \in {<<".">>, <<"..">>}
    THEN (IF Len(Join(Append(resolved, <<>>))) = 0 THEN <<"/">>
          ELSE Join(Append(resolved, <<>>)))
    ELSE Join(resolved)

ResolvedPath(segments) == JoinedPath(segments, ResolveDots(segments, <<>>))

\* urljoin once both URLs are parsed
JoinParsed(b, u, url) ==
    IF u.scheme # b.scheme THEN url
    ELSE IF Len(u.netloc) > 0 THEN UrlUnparse(u.scheme, u.netloc, u.path)
    ELSE IF Len(u.path) = 0 THEN UrlUnparse(u.scheme, b.netloc, b.path)
    ELSE UrlUnparse(u.scheme, b.netloc,
                    ResolvedPath(Segments(BaseParts(Split(b.path)), u.path)))

JoinOnto(b, url) == JoinParsed(b, UrlParse(url, b.scheme), url)

\* urllib.parse.urljoin(base, url) for http(s) URLs without query or fragment
UrlJoin(base, url) ==
    IF Len(base) = 0 THEN url
    ELSE IF Len(url) = 0 THEN base
    ELSE JoinOnto(UrlParse(base, ""), url)

\* ------------------------------------------------------- program constants

\* Site.agency_slug
AgencySlug == "ca_ventura_county_sheriff"

\* self.base_url
BaseUrl == <<"https:", "/", "/", "www.venturasheriff.org">>

\* self.target_urls
TargetUrls ==
    << BaseUrl \o <<"/", "sb1421", "/", "officer-involved-shooting-ois", "/">>,
       BaseUrl \o <<"/", "sb1421", "/",
                    "use-of-force-great-bodily-injury-cases-gbi", "/">> >>

\* utils.CLEAN_CACHE_DIR, as a string ending in "cache/"
CacheDir == <<"~", "/", ".clean-scraper", "/", "cache", "/">>

\* The name handed to write_json on the last statement of scrape_meta.
WriteArg == "metadata"

\* The names bound when that statement runs: the locals of scrape_meta and
\* the globals of the module.
ScrapeScope ==
    {"self", "throttle", "page_urls", "url", "detail_page_links",
     "local_detail_pages", "other_links", "page", "payload", "local_page",
     "data", "outfile",
     "time", "Path", "List", "BeautifulSoup", "utils", "Cache", "MetadataDict",
     "Site"}

\* The names bound inside _process_pdf and _process_youtube: their
\* parameters, their locals and the globals of the module.
HelperScope ==
    {"self", "link", "metadata_list", "href", "payload",
     "time", "Path", "List", "BeautifulSoup", "utils", "Cache", "MetadataDict",
     "Site"}

\* --------------------------------------------------------------- documents

\* An anchor element: its href attribute (when it has one), its text, and
\* whether it lies inside div[data-id='9a80528'].
Anchor(hasHref, href, text, inside) ==
    [hasHref |-> hasHref, href |-> href, text |-> text, inside |-> inside]

\* A parsed page: its first h1 (when it has one), whether the selected
\* container exists, and its anchors in document order.
Doc(hasH1, h1, container, anchors) ==
    [hasH1 |-> hasH1, h1 |-> h1, container |-> container, anchors |-> anchors]

EmptyDoc == Doc(FALSE, <<>>, FALSE, <<>>)

\* The anchors an index page may carry inside its container.
IndexMaster ==
    << Anchor(TRUE, BaseUrl \o <<"/", "sb1421", "/", "case-a", "/">>, <<"Case A">>, TRUE),
       Anchor(TRUE, BaseUrl \o <<"/", "sb1421", "/", "case-a", "/">>, <<"Case A">>, TRUE),
       Anchor(TRUE, <<"case-a", "/">>, <<"Case A">>, TRUE),
       Anchor(TRUE, <<"..", "/", "x", ".pdf">>, <<"Policy">>, TRUE),
       Anchor(TRUE, <<"/", "sb1421", "/", "case-b", "/">>, <<"Case B">>, TRUE),
       Anchor(TRUE, BaseUrl \o <<"/", "files", "/", "report", ".pdf">>, <<"Report">>, TRUE),
       Anchor(TRUE, <<"/", "/", "cdn.example.org", "/", "case-c">>, <<"Case C">>, TRUE),
       Anchor(TRUE, <<"http:", "/", "/", "example.org", "/", "case-d">>, <<"Case D">>, TRUE),
       Anchor(FALSE, <<>>, <<"top">>, TRUE) >>

\* Index pages: no container at all, or a container holding up to MaxLinks
\* consecutive anchors of IndexMaster.
IndexDocs ==
    {Doc(TRUE, <<"Index">>, FALSE, <<>>)} \cup
    {Doc(TRUE, <<"Index">>, TRUE, SubSeq(IndexMaster, w[1], w[1] + w[2] - 1)) :
        w \in {v \in (1..Len(IndexMaster)) \X (0..MaxLinks) :
                  v[1] + v[2] - 1 <= Len(IndexMaster)}}

PdfAnchor == Anchor(TRUE, <<"files", "/", "report", ".pdf">>, <<" ", "Report", "\n">>, FALSE)
PdfNewlineAnchor ==
    Anchor(TRUE, BaseUrl \o <<"/", "files", "/", "\n", "report", ".pdf">>, <<"Report">>, FALSE)
YoutubeAnchor == Anchor(TRUE, <<"https:", "/", "/", "youtu.be", "/", "x">>, <<"Video">>, FALSE)
AudioAnchor == Anchor(TRUE, BaseUrl \o <<"/", "a", ".mp3">>, <<"Audio", "\n", " ">>, FALSE)
OtherAnchor == Anchor(TRUE, <<"other", ".html">>, <<"Home">>, FALSE)

\* Detail pages.
DetailDocs ==
    { Doc(TRUE, <<" ", "Case", "\n">>, FALSE, <<>>),
      Doc(TRUE, <<"Case">>, FALSE, <<PdfAnchor, YoutubeAnchor, AudioAnchor, OtherAnchor>>),
      Doc(TRUE, <<"Case">>, FALSE, <<OtherAnchor, PdfNewlineAnchor>>),
      Doc(FALSE, <<>>, FALSE, <<PdfNewlineAnchor>>) }

\* What the network answers to one fetch: a page, or failure after the
\* retries of the fetch layer.
Response(ok, body) == [ok |-> ok, body |-> body]

IsTarget(url) == \E t \in 1..Len(TargetUrls) : TargetUrls[t] = url

Responses(url) ==
    {Response(FALSE, EmptyDoc)} \cup
    {Response(TRUE, d) : d \in (IF IsTarget(url) THEN IndexDocs ELSE DetailDocs)}

\* ------------------------------------------------------------- exceptions

Returned(value) == [exc |-> "none", value |-> value]
Raised(e) == [exc |-> e, value |-> <<>>]

\* ------------------------------------------------------------- page cache

\* Cache.download(name, url, encoding): skip the fetch when the key is
\* present; otherwise fetch, and store the body unless the fetch fails.
CacheDownload(c, name, url, resp) ==
    IF name \in DOMAIN c
    THEN [cache |-> c, fetched |-> FALSE, exc |-> "none", value |-> CacheDir \o name]
    ELSE IF ~resp.ok
    THEN [cache |-> c, fetched |-> TRUE, exc |-> "AssertionError", value |-> <<>>]
    ELSE [cache |-> [k \in DOMAIN c \cup {name} |-> IF k = name THEN resp.body ELSE c[k]],
          fetched |-> TRUE, exc |-> "none", value |-> CacheDir \o name]

\* Cache.read(name): Path(cache_dir, name), which is name itself when name
\* is already a path under the cache directory.
CacheRead(c, name) ==
    IF StartsWith(name, CacheDir)
    THEN c[SubSeq(name, Len(CacheDir) + 1, Len(name))]
    ELSE c[name]

\* ------------------------------------------------------------ Site methods

\* url.rstrip("/").split("/")[-1]
FileStem(url) == Last(Split(RStripSlash(url)))

\* The cache key as it would be if it kept the whole URL, parent path
\* included.
BaseFileWholeUrl(url) ==
    <<AgencySlug, "/">> \o RStripSlash(url) \o <<".html">>

\* The cache key _download_page computes.
BaseFile(url) ==
    <<AgencySlug, "/">> \o Last(Split(RStripSlash(url))) \o <<".html">>

\* _download_page as it would be if it fetched whether or not the key is
\* cached.
DownloadPageAlways(c, url, resp) ==
    IF ~resp.ok
    THEN [cache |-> c, fetched |-> TRUE, exc |-> "AssertionError", value |-> <<>>]
    ELSE [cache |-> [k \in DOMAIN c \cup {BaseFile(url)} |->
                       IF k = BaseFile(url) THEN resp.body ELSE c[k]],
          fetched |-> TRUE, exc |-> "none", value |-> CacheDir \o BaseFile(url)]

\* Site._download_page(url)
DownloadPage(c, url, resp) == CacheDownload(c, BaseFile(url), url, resp)

\* str(path).split("cache/")[-1]
HasCacheDir(s) == \E k \in 1..(Len(s) - 1) : s[k] = "cache" /\ s[k + 1] = "/"
FirstCacheDir(s) == CHOOSE k \in 1..(Len(s) - 1) : s[k] = "cache" /\ s[k + 1] = "/"
RECURSIVE AfterLastCache(_)
AfterLastCache(s) ==
    IF HasCacheDir(s) THEN AfterLastCache(SubSeq(s, FirstCacheDir(s) + 2, Len(s)))
    ELSE s

\* _get_detail_page_links: the URL appended for one href
ResolveLink(url) ==
    IF ~StartsWith(url, <<"https:", "/", "/">>) THEN UrlJoin(BaseUrl, url) ELSE url

\* _get_detail_page_links: the loop over container.find_all("a")
RECURSIVE CollectLinks(_, _)
CollectLinks(anchors, links) ==
    IF Len(anchors) = 0 THEN Returned(links)
    ELSE IF ~anchors[1].hasHref THEN Raised("KeyError")
    ELSE CollectLinks(Tail(anchors), Append(links, ResolveLink(anchors[1].href)))

\* _get_detail_page_links: the links of the parsed index page
ContainerLinks(html) ==
    IF html.container
    THEN CollectLinks(SelectSeq(html.anchors, LAMBDA a : a.inside), <<>>)
    ELSE Returned(<<>>)

CallResult(dl, out) ==
    [cache |-> dl.cache, fetched |-> dl.fetched, exc |-> out.exc, value |-> out.value]

\* _get_detail_page_links: what follows the download of the index page
LinksOfDownload(dl) ==
    IF dl.exc # "none" THEN CallResult(dl, Raised(dl.exc))
    ELSE CallResult(dl, ContainerLinks(CacheRead(dl.cache, AfterLastCache(dl.value))))

\* Site._get_detail_page_links(target_url)
GetDetailPageLinks(c, target_url, resp) ==
    LinksOfDownload(DownloadPage(c, target_url, resp))

\* The filter as it would be if it kept every URL.
OtherLinksAll(urls) == urls

\* filter(lambda x: not x.endswith(".pdf"), page_urls)
OtherLinks(urls) == SelectSeq(urls, LAMBDA u : ~EndsWith(u, ".pdf"))

\* What one pass of the download loop does before it stores the path.
Sleep == [op |-> "sleep", arg |-> <<>>]
DownloadCall(page) == [op |-> "download", arg |-> page]
\* The pass as it would be without the throttle.
LoopEventsNoSleep(page) == <<DownloadCall(page)>>
LoopEvents(page) == <<Sleep, DownloadCall(page)>>

\* Python's `left in s` for a string s.
PyIn(left, s) ==
    IF left \in BOOLEAN THEN "TypeError"
    ELSE IF Contains(s, left) THEN "True" ELSE "False"

\* The dictionary the helpers' loops build.
Payload(title, html_file, href, text) ==
    [title |-> title, parent_page |-> html_file,
     asset_url |-> RemoveNewlines(href), name |-> RemoveNewlines(Strip(text))]

\* Site._process_pdf, called with the positional arguments args.
ProcessPdf(args) ==
    IF Len(args) # 1 THEN Raised("TypeError")
    ELSE IF "links" \notin HelperScope THEN Raised("NameError")
    ELSE Returned(<<>>)

\* Site._process_youtube, called with the positional arguments args.
ProcessYoutube(args) ==
    IF Len(args) # 1 THEN Raised("TypeError")
    ELSE IF "links" \notin HelperScope THEN Raised("NameError")
    ELSE Returned(<<>>)

\* Site._process_audio, called with the positional arguments args.
ProcessAudio(args) ==
    IF Len(args) # 1 THEN Raised("TypeError")
    ELSE Returned(<<>>)

\* _process_detail_page: link.get("href", "")
LinkHref(link) == IF link.hasHref THEN link.href ELSE <<>>

\* _process_detail_page: the if/elif chain for one link, isPdf being the
\* value of its first condition; what it leaves in the local `payload`.
Dispatch(link, href, isPdf, title, local_page, bound, last) ==
    IF isPdf = "TypeError" THEN Raised("TypeError")
    ELSE IF isPdf = "True" THEN ProcessPdf(<<link, title, local_page>>)
    ELSE IF Contains(href, "youtu.be") \/ Contains(href, "youtube.com")
    THEN ProcessYoutube(<<link, title, local_page>>)
    ELSE IF Contains(href, ".mp3") THEN ProcessAudio(<<link, title, local_page>>)
    ELSE IF bound THEN Returned(last)
    ELSE Raised("UnboundLocalError")

\* _process_detail_page: the loop over soup.find_all("a").  bound says
\* whether the local `payload` has been assigned, last is its value.
RECURSIVE ClassifyLinks(_, _, _, _, _, _)
RECURSIVE ClassifyRest(_, _, _, _, _)
ClassifyLinks(links, title, local_page, metadata, bound, last) ==
    IF Len(links) = 0 THEN Returned(metadata)
    ELSE ClassifyRest(links, title, local_page, metadata,
             Dispatch(links[1], LinkHref(links[1]),
                      PyIn(EndsWith(LinkHref(links[1]), ".pdf"), LinkHref(links[1])),
                      title, local_page, bound, last))

ClassifyRest(links, title, local_page, metadata, call) ==
    IF call.exc # "none" THEN Raised(call.exc)
    ELSE ClassifyLinks(Tail(links), title, local_page,
                       Append(metadata, call.value), TRUE, call.value)

\* _process_detail_page: what follows the read of the cached page
ClassifyPage(html, local_page) ==
    IF ~html.hasH1 THEN Raised("AttributeError")
    ELSE ClassifyLinks(html.anchors, Strip(html.h1), local_page, <<>>, FALSE, <<>>)

\* Site._process_detail_page(local_page)
ProcessDetailPage(c, local_page) == ClassifyPage(CacheRead(c, local_page), local_page)

\* Cache.write_json(path, value): the file holds value afterwards.
WriteJson(value) == [exists |-> TRUE, records |-> value]

\* The value a bound name of scrape_meta holds on its last statement.
ScopeValue(name, pl) == IF name = "payload" THEN pl ELSE <<>>


\* ------------------------------------------------------------------- state

VARIABLES
    run,                 \* number of the current invocation of scrape_meta
    pc,                  \* where it stands: "discover", "download",
                         \* "classify", "returned" or "raised"
    idx,                 \* position of the current loop in its list
    exc,                 \* the exception that ended the invocation
    page_urls,           \* scrape_meta's local page_urls
    other_links,         \* scrape_meta's local other_links
    local_detail_pages,  \* scrape_meta's local local_detail_pages
    payload,             \* scrape_meta's local payload
    cache,               \* the files of the cache directory, by key
    export,              \* the export file ca_ventura_county_sheriff.json
    writes,              \* write_json calls of the current invocation
    fetches,             \* network fetches issued so far
    events,              \* calls of the current invocation, in order
    lastDisc,            \* the latest call of _get_detail_page_links
    discOut,             \* per target URL, the outcome of its latest call
    lastCls,             \* the latest call of _process_detail_page
    origin,              \* per cache key, the URL whose fetch filled it
    lastDl               \* the latest call of _download_page in the
                         \* download loop

vars == <<run, pc, idx, exc, page_urls, other_links, local_detail_pages,
          payload, cache, export, writes, fetches, events, lastDisc, discOut,
          lastCls, origin, lastDl>>

NoFile == [exists |-> FALSE, records |-> <<>>]

\* An export left by an earlier version of the scraper.
StaleFile ==
    [exists |-> TRUE,
     records |-> << Payload(<<"Old">>, CacheDir \o BaseFile(<<"old">>),
                            BaseUrl \o <<"/", "old", ".pdf">>, <<"Old">>) >>]

NoDisc ==
    [target |-> 0, hit |-> FALSE, fetched |-> 0, out |-> Returned(<<>>),
     again |-> FALSE, prev |-> Returned(<<>>), doc |-> EmptyDoc]

NoCls == [called |-> FALSE, page |-> <<>>, doc |-> EmptyDoc, out |-> Returned(<<>>)]

NoOutcome == [called |-> FALSE, out |-> Returned(<<>>)]

NoDl ==
    [called |-> FALSE, url |-> <<>>, shared |-> FALSE, first |-> <<>>,
     firstDoc |-> EmptyDoc, fetched |-> 0, out |-> Returned(<<>>),
     doc |-> EmptyDoc]

Init ==
    /\ run = 1
    /\ pc = "discover"
    /\ idx = 1
    /\ exc = "none"
    /\ page_urls = <<>>
    /\ other_links = <<>>
    /\ local_detail_pages = <<>>
    /\ payload = <<>>
    /\ cache = <<>>
    /\ export \in {NoFile, StaleFile}
    /\ writes = 0
    /\ fetches = 0
    /\ events = <<>>
    /\ lastDisc = NoDisc
    /\ discOut = [t \in 1..Len(TargetUrls) |-> NoOutcome]
    /\ lastCls = NoCls
    /\ origin = <<>>
    /\ lastDl = NoDl

\* The answers the network may give to a download of url: none is needed
\* when the key is cached.
Answers(url) ==
    IF BaseFile(url) \in DOMAIN cache THEN {Response(FALSE, EmptyDoc)} ELSE Responses(url)

\* The URLs whose fetch filled the cache, once a call of _download_page(url)
\* has left the cache as c.
OriginAfter(url, c) ==
    [k \in DOMAIN c |-> IF k \in DOMAIN origin THEN origin[k] ELSE url]

\* The cached keys that were filled from a URL with the file stem of url.
SameStemKeys(url) ==
    {k \in DOMAIN origin : FileStem(origin[k]) = FileStem(url)}

\* What one call of _download_page(page) in the download loop found and
\* left behind; keys is SameStemKeys(page) before the call.
DownloadSeen(page, r, keys) ==
    [called |-> TRUE,
     url |-> page,
     shared |-> keys # {},
     first |-> IF keys # {} THEN origin[CHOOSE k \in keys : TRUE] ELSE <<>>,
     firstDoc |-> IF keys # {} THEN cache[CHOOSE k \in keys : TRUE] ELSE EmptyDoc,
     fetched |-> IF r.fetched THEN 1 ELSE 0,
     out |-> [exc |-> r.exc, value |-> r.value],
     doc |-> IF r.exc = "none" THEN CacheRead(r.cache, r.value) ELSE EmptyDoc]

\* scrape_meta: what one call of _get_detail_page_links leaves behind
DiscoverDone(url, r) ==
    /\ cache' = r.cache
    /\ fetches' = fetches + (IF r.fetched THEN 1 ELSE 0)
    /\ events' = Append(events, [op |-> "discover", arg |-> url])
    /\ lastDisc' = [target |-> idx,
                    hit |-> BaseFile(url) \in DOMAIN cache,
                    fetched |-> IF r.fetched THEN 1 ELSE 0,
                    out |-> [exc |-> r.exc, value |-> r.value],
                    again |-> discOut[idx].called,
                    prev |-> discOut[idx].out,
                    doc |-> IF BaseFile(url) \in DOMAIN r.cache
                            THEN r.cache[BaseFile(url)] ELSE EmptyDoc]
    /\ discOut' = [discOut EXCEPT
                     ![idx] = [called |-> TRUE,
                               out |-> [exc |-> r.exc, value |-> r.value]]]
    /\ IF r.exc = "none"
       THEN /\ page_urls' = page_urls \o r.value
            /\ idx' = idx + 1
            /\ UNCHANGED <<pc, exc>>
       ELSE /\ pc' = "raised"
            /\ exc' = r.exc
            /\ UNCHANGED <<page_urls, idx>>

\* scrape_meta, one pass of `for url in self.target_urls`
ScrapeDiscover ==
    /\ pc = "discover"
    /\ idx <= Len(TargetUrls)
    /\ \E resp \in Answers(TargetUrls[idx]) :
         DiscoverDone(TargetUrls[idx],
                      GetDetailPageLinks(cache, TargetUrls[idx], resp))
    /\ origin' = OriginAfter(TargetUrls[idx], cache')
    /\ UNCHANGED <<run, other_links, local_detail_pages, payload, export,
                   writes, lastCls, lastDl>>

\* scrape_meta, from the end of the first loop to the start of the second
ScrapeFilter ==
    /\ pc = "discover"
    /\ idx > Len(TargetUrls)
    /\ local_detail_pages' = <<>>
    /\ other_links' = OtherLinks(page_urls)
    /\ pc' = "download"
    /\ idx' = 1
    /\ UNCHANGED <<run, exc, page_urls, payload, cache, export, writes,
                   fetches, events, lastDisc, discOut, lastCls, origin, lastDl>>

\* The pass as it would be if a failed download were caught and the records
\* gathered so far written out.
DownloadDoneWritesPartial(page, r) ==
    /\ cache' = r.cache
    /\ fetches' = fetches + (IF r.fetched THEN 1 ELSE 0)
    /\ events' = events \o <<Sleep, DownloadCall(page)>>
    /\ IF r.exc = "none"
       THEN /\ local_detail_pages' = Append(local_detail_pages, r.value)
            /\ idx' = idx + 1
            /\ UNCHANGED <<pc, exc, export, writes>>
       ELSE /\ pc' = "raised"
            /\ exc' = r.exc
            /\ export' = WriteJson(payload)
            /\ writes' = writes + 1
            /\ UNCHANGED <<local_detail_pages, idx>>

\* scrape_meta: what one pass of the download loop leaves behind
DownloadDone(page, r) ==
    /\ cache' = r.cache
    /\ fetches' = fetches + (IF r.fetched THEN 1 ELSE 0)
    /\ events' = events \o LoopEvents(page)
    /\ UNCHANGED <<export, writes>>
    /\ IF r.exc = "none"
       THEN /\ local_detail_pages' = Append(local_detail_pages, r.value)
            /\ idx' = idx + 1
            /\ UNCHANGED <<pc, exc>>
       ELSE /\ pc' = "raised"
            /\ exc' = r.exc
            /\ UNCHANGED <<local_detail_pages, idx>>

\* scrape_meta, one pass of `for page in other_links`
ScrapeDownload ==
    /\ pc = "download"
    /\ idx <= Len(other_links)
    /\ \E resp \in Answers(other_links[idx]) :
         /\ DownloadDone(other_links[idx],
                         DownloadPage(cache, other_links[idx], resp))
         /\ lastDl' = DownloadSeen(other_links[idx],
                                   DownloadPage(cache, other_links[idx], resp),
                                   SameStemKeys(other_links[idx]))
    /\ origin' = OriginAfter(other_links[idx], cache')
    /\ UNCHANGED <<run, page_urls, other_links, payload, lastDisc, discOut,
                   lastCls>>

\* scrape_meta, from the end of the second loop to the start of the third
ScrapeStartClassify ==
    /\ pc = "download"
    /\ idx > Len(other_links)
    /\ payload' = <<>>
    /\ pc' = "classify"
    /\ idx' = 1
    /\ UNCHANGED <<run, exc, page_urls, other_links, local_detail_pages,
                   cache, export, writes, fetches, events, lastDisc, discOut,
                   lastCls, origin, lastDl>>

\* scrape_meta: what one call of _process_detail_page leaves behind
ClassifyDone(local_page, data) ==
    /\ events' = Append(events, [op |-> "classify", arg |-> local_page])
    /\ lastCls' = [called |-> TRUE, page |-> local_page,
                   doc |-> CacheRead(cache, local_page), out |-> data]
    /\ IF data.exc = "none"
       THEN /\ payload' = payload \o data.value
            /\ idx' = idx + 1
            /\ UNCHANGED <<pc, exc>>
       ELSE /\ pc' = "raised"
            /\ exc' = data.exc
            /\ UNCHANGED <<payload, idx>>

\* scrape_meta, one pass of `for local_page in local_detail_pages`
ScrapeClassify ==
    /\ pc = "classify"
    /\ idx <= Len(local_detail_pages)
    /\ ClassifyDone(local_detail_pages[idx],
                    ProcessDetailPage(cache, local_detail_pages[idx]))
    /\ UNCHANGED <<run, page_urls, other_links, local_detail_pages, cache,
                   export, writes, fetches, lastDisc, discOut, origin, lastDl>>

\* scrape_meta, the statements after the third loop
ScrapeWrite ==
    /\ pc = "classify"
    /\ idx > Len(local_detail_pages)
    /\ IF WriteArg \in ScrapeScope
       THEN /\ export' = WriteJson(ScopeValue(WriteArg, payload))
            /\ writes' = writes + 1
            /\ pc' = "returned"
            /\ UNCHANGED exc
       ELSE /\ pc' = "raised"
            /\ exc' = "NameError"
            /\ UNCHANGED <<export, writes>>
    /\ UNCHANGED <<run, idx, page_urls, other_links, local_detail_pages,
                   payload, cache, fetches, events, lastDisc, discOut, lastCls,
                   origin, lastDl>>

\* Site(...).scrape_meta() is invoked again; the cache directory and the
\* export directory are those of the invocation before.
StartRun ==
    /\ pc \in {"returned", "raised"}
    /\ run < MaxRuns
    /\ run' = run + 1
    /\ pc' = "discover"
    /\ idx' = 1
    /\ exc' = "none"
    /\ page_urls' = <<>>
    /\ other_links' = <<>>
    /\ local_detail_pages' = <<>>
    /\ payload' = <<>>
    /\ writes' = 0
    /\ events' = <<>>
    /\ lastDisc' = NoDisc
    /\ lastCls' = NoCls
    /\ lastDl' = NoDl
    /\ UNCHANGED <<cache, export, fetches, discOut, origin>>

Next ==
    \/ ScrapeDiscover
    \/ ScrapeFilter
    \/ ScrapeDownload
    \/ ScrapeStartClassify
    \/ ScrapeClassify
    \/ ScrapeWrite
    \/ StartRun

Spec == Init /\ [][Next]_vars

\* ------------------------------------------------------------------ claims

\* What the claims call the kind of an href: the ordered rules, first match
\* wins.
ClaimKind(href) ==
    IF EndsWith(href, ".pdf") THEN "pdf"
    ELSE IF Contains(href, "youtu.be") \/ Contains(href, "youtube.com") THEN "youtube"
    ELSE IF Contains(href, ".mp3") THEN "audio"
    ELSE "none"

\* The title the claims give a page.
ClaimTitle(doc) == IF doc.hasH1 THEN Strip(doc.h1) ELSE <<"No title found">>

\* The records the claims expect of a page: one per anchor of a kind, in
\* document order.
RECURSIVE ClaimRecordsOf(_, _, _)
ClaimRecordsOf(anchors, title, local_page) ==
    IF Len(anchors) = 0 THEN <<>>
    ELSE (IF ClaimKind(LinkHref(anchors[1])) = "none" THEN <<>>
          ELSE <<Payload(title, local_page, LinkHref(anchors[1]), anchors[1].text)>>)
         \o ClaimRecordsOf(Tail(anchors), title, local_page)

ClaimRecords(doc, local_page) ==
    ClaimRecordsOf(doc.anchors, ClaimTitle(doc), local_page)

HasAsset(doc) ==
    \E k \in 1..Len(doc.anchors) : ClaimKind(LinkHref(doc.anchors[k])) # "none"

\* The entries of urls that do not end in ".pdf", in order.
RECURSIVE NonPdf(_)
NonPdf(urls) ==
    IF Len(urls) = 0 THEN <<>>
    ELSE (IF EndsWith(urls[1], ".pdf") THEN <<>> ELSE <<urls[1]>>) \o NonPdf(Tail(urls))

HasPdf(urls) == \E k \in 1..Len(urls) : EndsWith(urls[k], ".pdf")

\* The anchors of a page that lie inside the selected container.
ContainerAnchors(doc) ==
    IF doc.container THEN SelectSeq(doc.anchors, LAMBDA a : a.inside) ELSE <<>>

\* An href that is already an absolute URL: it carries a scheme.
IsAbsolute(href) == Len(href) > 0 /\ href[1] \in Schemes

DiscReturned == lastDisc.target # 0 /\ lastDisc.out.exc = "none"

EventsOf(ops) == SelectSeq(events, LAMBDA e : e.op \in ops)

Rank(op) == IF op = "discover" THEN 1 ELSE IF op = "classify" THEN 3 ELSE 2

\* C1: for every detail page with a title, the classifier returns one
\* record per anchor whose href is a pdf, youtube or audio link, in document
\* order, and none for any other anchor.
C1_ClassifiesByRules ==
    (lastCls.called /\ lastCls.doc.hasH1) =>
        /\ lastCls.out.exc = "none"
        /\ Len(lastCls.out.value) = Len(ClaimRecords(lastCls.doc, lastCls.page))
        /\ \A k \in 1..Len(lastCls.out.value) :
             lastCls.out.value[k].asset_url
                 = ClaimRecords(lastCls.doc, lastCls.page)[k].asset_url

\* C2: every anchor of a kind yields a record holding the page title, the
\* local page reference, the href without newlines and the anchor text
\* trimmed and without newlines.
C2_RecordFields ==
    (lastCls.called /\ lastCls.doc.hasH1 /\ HasAsset(lastCls.doc)) =>
        /\ lastCls.out.exc = "none"
        /\ lastCls.out.value = ClaimRecords(lastCls.doc, lastCls.page)

\* C3: an invocation in which no download fails, and in which neither the
\* discoverer nor the classifier raises, ends by writing the export and
\* returning; the export then holds the records of the detail pages in
\* download order.
RECURSIVE ClaimExport(_)
ClaimExport(pages) ==
    IF Len(pages) = 0 THEN <<>>
    ELSE ClaimRecords(CacheRead(cache, pages[1]), pages[1]) \o ClaimExport(Tail(pages))

C3_WritesExport ==
    (/\ pc \in {"returned", "raised"}
     /\ exc \notin {"AssertionError", "KeyError", "AttributeError", "TypeError"}) =>
        /\ pc = "returned"
        /\ export = [exists |-> TRUE, records |-> ClaimExport(local_detail_pages)]

\* C4: a detail page without an h1 does not make the classifier fail: its
\* records carry the title "No title found" and the invocation goes on.
C4_MissingTitle ==
    (lastCls.called /\ ~lastCls.doc.hasH1) =>
        /\ lastCls.out.exc = "none"
        /\ \A k \in 1..Len(lastCls.out.value) :
             lastCls.out.value[k].title = <<"No title found">>
        /\ pc # "raised"

\* C5: in every invocation the export is written at most once, and only
\* after every index page was discovered and every detail page downloaded
\* and classified; a step that ends the invocation with a failed download
\* leaves the export as it was and keeps every cached page.
C5_ExportOnlyAtEnd ==
    [][ /\ (export' # export \/ writes' > writes) =>
              /\ writes = 0
              /\ writes' = 1
              /\ pc' = "returned"
              /\ Len(EventsOf({"discover"})) = Len(TargetUrls)
              /\ Len(EventsOf({"download"})) = Len(NonPdf(page_urls))
              /\ Len(EventsOf({"classify"})) = Len(EventsOf({"download"}))
        /\ (pc' = "raised" /\ (pc # "raised" \/ run' # run)
               /\ exc' = "AssertionError") =>
              /\ export' = export
              /\ \A k \in DOMAIN cache : k \in DOMAIN cache' /\ cache'[k] = cache[k]
      ]_vars

C5_Witness ==
    /\ pc = "raised"
    /\ exc = "AssertionError"
    /\ Len(local_detail_pages) >= 1
    /\ export = StaleFile
    /\ Cardinality(DOMAIN cache) >= 3

\* C6: a call of the discoverer for an index URL whose key an earlier call
\* has put into the cache issues no fetch and ends as that earlier call did,
\* with the same list of URLs.
C6_DiscoverIdempotent ==
    (lastDisc.target # 0 /\ lastDisc.again /\ lastDisc.hit) =>
        /\ lastDisc.fetched = 0
        /\ lastDisc.out = lastDisc.prev

C6_Witness ==
    /\ run = 2
    /\ lastDisc.target # 0
    /\ lastDisc.again
    /\ lastDisc.hit
    /\ lastDisc.out.exc = "none"
    /\ Len(lastDisc.out.value) >= 2
    /\ fetches >= 1

\* C7 as claimed: the list the discoverer returns holds no URL ending in
\* ".pdf".
C7_DiscoverDropsPdf ==
    DiscReturned =>
        \A k \in 1..Len(lastDisc.out.value) : ~EndsWith(lastDisc.out.value[k], ".pdf")

\* C7, amended: the discoverer returns one URL for every anchor of the
\* container, those ending in ".pdf" included; the list scrape_meta goes on
\* to download is that of the discovered URLs without those ending in
\* ".pdf", in the same order.
C7_OnlyOrchestratorFilters ==
    /\ DiscReturned =>
         Len(lastDisc.out.value) = Len(ContainerAnchors(lastDisc.doc))
    /\ \A k \in 1..Len(other_links) : ~EndsWith(other_links[k], ".pdf")
    /\ pc \in {"download", "classify"} => other_links = NonPdf(page_urls)

C7_Witness ==
    /\ pc = "download"
    /\ HasPdf(page_urls)
    /\ Len(other_links) >= 1
    /\ DiscReturned
    /\ HasPdf(lastDisc.out.value)

\* C8: every href of the container that is not an absolute URL is returned
\* joined onto the URL of the index page it was found on, an absolute href
\* is returned as it is, and order and duplicates are kept.
C8_ResolvesAgainstPage ==
    DiscReturned =>
        /\ Len(lastDisc.out.value) = Len(ContainerAnchors(lastDisc.doc))
        /\ \A k \in 1..Len(lastDisc.out.value) :
             lastDisc.out.value[k]
                 = IF IsAbsolute(ContainerAnchors(lastDisc.doc)[k].href)
                   THEN ContainerAnchors(lastDisc.doc)[k].href
                   ELSE UrlJoin(TargetUrls[lastDisc.target],
                                ContainerAnchors(lastDisc.doc)[k].href)

\* C9: every record of the combined list, and of the export once this
\* invocation has written it, carries an asset_url with a scheme and a host.
\* No invocation ever puts a record into the list or writes the export, so
\* this holds of every reachable state without a case of it being reached.
IsAbsoluteUrl(url) ==
    /\ Len(url) >= 4
    /\ url[1] \in Schemes
    /\ url[2] = "/"
    /\ url[3] = "/"
    /\ url[4] # "/"

C9_AssetUrlsAbsolute ==
    /\ \A k \in 1..Len(payload) : IsAbsoluteUrl(payload[k].asset_url)
    /\ writes > 0 => \A k \in 1..Len(export.records) :
                        IsAbsoluteUrl(export.records[k].asset_url)

C9_RecordEmitted == Len(payload) > 0 \/ writes > 0

\* C10: the calls of an invocation come in three blocks: the discoveries of
\* the target URLs in order, then for each discovered URL not ending in
\* ".pdf", in order, one sleep followed at once by one download of that URL,
\* then the classifications; the classifications start only when every such
\* URL has been downloaded.
C10_SequentialDownloads ==
    /\ \A i, j \in 1..Len(events) :
         i < j => Rank(events[i].op) <= Rank(events[j].op)
    /\ \A k \in 1..Len(EventsOf({"discover"})) :
         EventsOf({"discover"})[k].arg = TargetUrls[k]
    /\ Len(EventsOf({"sleep", "download"})) > 0 =>
         Len(EventsOf({"discover"})) = Len(TargetUrls)
    /\ Len(EventsOf({"sleep", "download"})) = 2 * Len(EventsOf({"download"}))
    /\ Len(EventsOf({"download"})) <= Len(NonPdf(page_urls))
    /\ \A k \in 1..Len(EventsOf({"download"})) :
         /\ EventsOf({"sleep", "download"})[2 * k - 1].op = "sleep"
         /\ EventsOf({"sleep", "download"})[2 * k].op = "download"
         /\ EventsOf({"sleep", "download"})[2 * k].arg = NonPdf(page_urls)[k]
         /\ ~EndsWith(EventsOf({"download"})[k].arg, ".pdf")
    /\ (pc = "classify" \/ Len(EventsOf({"classify"})) > 0) =>
         Len(EventsOf({"download"})) = Len(NonPdf(page_urls))

C10_Witness ==
    /\ Len(EventsOf({"classify"})) >= 1
    /\ Len(EventsOf({"download"})) >= 3
    /\ HasPdf(page_urls)

\* C11: the cache key of a URL is the agency slug, "/", the URL's last
\* segment after its trailing slashes are stripped, and ".html"; so when
\* the download loop downloads a URL while the cache holds a page that was
\* fetched from a URL with the same last segment, whatever the parent path
\* of either, the two URLs have one key, the download issues no fetch, and
\* the path it returns reads as the page fetched for the first URL.
C11_SameStemSameKey ==
    lastDl.called =>
        /\ BaseFile(lastDl.url) =
              <<AgencySlug, "/">> \o FileStem(lastDl.url) \o <<".html">>
        /\ lastDl.shared =>
              /\ BaseFile(lastDl.first) = BaseFile(lastDl.url)
              /\ lastDl.fetched = 0
              /\ lastDl.out = Returned(CacheDir \o BaseFile(lastDl.first))
              /\ lastDl.doc = lastDl.firstDoc

\* A URL is downloaded after another URL with the same last segment and a
\* different parent path.
C11_Witness ==
    /\ lastDl.called
    /\ lastDl.shared
    /\ lastDl.first # lastDl.url
    /\ Front(Split(RStripSlash(lastDl.first))) # Front(Split(RStripSlash(lastDl.url)))
    /\ lastDl.out.exc = "none"
    /\ lastDl.doc = lastDl.firstDoc
====
